---------------------------- MODULE Spec2Model ----------------------------
(***************************************************************************)
(* Model of the FastAI mock backend (src/src/main.py): the site endpoints  *)
(* GET /sites/my, POST /sites/create, POST /sites/{site_id}/generate,      *)
(* GET /sites/{site_id}, and the chunked stream producer                   *)
(* generate_html_chunks.                                                   *)
(*                                                                         *)
(* Python str values are sequences of Unicode code points (integers), so   *)
(* len() and slicing count what Python counts.                             *)
(***************************************************************************)
EXTENDS Integers, Sequences, FiniteSets, TLC

VARIABLES
    MOCK_SITE,        \* the fields of the module-level SiteResponse object
    MOCK_SITES_LIST,  \* the module-level list: references to site objects
    log,              \* the (request, response) pairs served so far, in order
    streams           \* the generate_html_chunks generator objects created so far

vars == <<MOCK_SITE, MOCK_SITES_LIST, log, streams>>

registry == <<MOCK_SITE, MOCK_SITES_LIST>>

---------------------------------------------------------------------------
(* Bounds of the model *)

MaxRequests == 3      \* requests served in one behaviour of the HTTP app
MaxSiteId == 2        \* site ids requested over HTTP: 0..MaxSiteId
MaxTime == 1          \* readings of the wall clock: 0..MaxTime
MaxPromptLen == 101   \* longest prompt handed to a single producer
NStreams == 2         \* concurrent producers

---------------------------------------------------------------------------
(* Python values *)

None == [type |-> "NoneType"]

PyInt(n) == [type |-> "int", val |-> n]

\* The name `id` inside mock_generate_site_html is bound to nothing local:
\* it is Python's builtin function id.
id == [type |-> "builtin_function_or_method", val |-> "id"]

\* Python's ==: values of unrelated types are unequal.
PyEq(a, b) == a.type = b.type /\ a.val = b.val

PyNe(a, b) == ~PyEq(a, b)

Min(a, b) == IF a < b THEN a ELSE b

\* s[i:j - 1]: a slice one character short.
Slice_short(s, i, j) == SubSeq(s, Min(i, Len(s)) + 1, Min(j - 1, Len(s)))

\* s[i:j] for 0 <= i <= j, on a 1-based sequence.
Slice(s, i, j) == SubSeq(s, Min(i, Len(s)) + 1, Min(j, Len(s)))

RECURSIVE NatToStr(_)
NatToStr(n) ==
    IF n < 10 THEN <<48 + n>>
    ELSE NatToStr(n \div 10) \o <<48 + (n % 10)>>

\* str(n) of an int, as the f-string renders {site_id}.
IntToStr(n) == IF n < 0 THEN <<45>> \o NatToStr(-n) ELSE NatToStr(n)

---------------------------------------------------------------------------
(* Mock data *)

MOCK_TIME == 0   \* datetime(2025, 6, 15, 18, 29, 56, tzinfo=timezone.utc)

HTML_CODE_URL == "http://example.com/media/index.html"

HTML_CODE_DOWNLOAD_URL ==
    "http://example.com/media/index.html?response-content-disposition=attachment"

SCREENSHOT_URL == "http://example.com/media/index.png"

MOCK_TITLE ==
    <<1060, 1072, 1085, 32, 1082, 1083, 1091, 1073, 32, 1044, 1086, 1084,
      1080, 1085, 1086>>

MOCK_PROMPT ==
    <<1057, 1072, 1081, 1090, 32, 1083, 1102, 1073, 1080, 1090, 1077, 1083,
      1077, 1081, 32, 1080, 1075, 1088, 1072, 1090, 1100, 32, 1074, 32, 1076,
      1086, 1084, 1080, 1085, 1086>>

\* The fields of a SiteResponse.
SiteResponse(site_id, title, prompt, created_at, updated_at) ==
    [id |-> site_id,
     title |-> title,
     prompt |-> prompt,
     html_code_url |-> HTML_CODE_URL,
     html_code_download_url |-> HTML_CODE_DOWNLOAD_URL,
     screenshot_url |-> SCREENSHOT_URL,
     created_at |-> created_at,
     updated_at |-> updated_at]

\* The fields of a CreateSiteResponse.
CreateSiteResponse(site_id, title, prompt, created_at, updated_at) ==
    [id |-> site_id,
     title |-> title,
     prompt |-> prompt,
     html_code_url |-> HTML_CODE_URL,
     html_code_download_url |-> HTML_CODE_DOWNLOAD_URL,
     screenshot_url |-> SCREENSHOT_URL,
     created_at |-> created_at,
     updated_at |-> updated_at]

\* The object a reference of MOCK_SITES_LIST names.
Deref(ref) == IF ref = "MOCK_SITE" THEN MOCK_SITE ELSE None

HTTPException(status_code, detail) ==
    [status_code |-> status_code, detail |-> detail]

---------------------------------------------------------------------------
(* Inputs *)

\* A prompt of n characters, letters cycling from `base`.
PromptOf(n, base) == [k \in 1..n |-> base + ((k - 1) % 26)]

SiteIds == 0..MaxSiteId

Times == 0..MaxTime

ReqPrompts == {PromptOf(1, 97), PromptOf(2, 65)}

ReqTitles == {None, PromptOf(3, 65)}

---------------------------------------------------------------------------
(* The stream producer *)

chunk_size == 100

TEMPLATE_HEAD ==
    <<10, 32, 32, 32, 32, 60, 33, 68, 79, 67, 84, 89, 80, 69, 32, 104, 116,
      109, 108, 62, 10, 32, 32, 32, 32, 60, 104, 116, 109, 108, 62, 10, 32,
      32, 32, 32, 60, 104, 101, 97, 100, 62, 10, 32, 32, 32, 32, 32, 32, 32,
      32, 60, 116, 105, 116, 108, 101, 62, 1057, 1072, 1081, 1090, 32, 35>>

TEMPLATE_MID ==
    <<60, 47, 116, 105, 116, 108, 101, 62, 10, 32, 32, 32, 32, 60, 47, 104,
      101, 97, 100, 62, 10, 32, 32, 32, 32, 60, 98, 111, 100, 121, 62, 10,
      32, 32, 32, 32, 32, 32, 32, 32, 60, 104, 49, 62, 1057, 1075, 1077,
      1085, 1077, 1088, 1080, 1088, 1086, 1074, 1072, 1085, 1086, 32, 1085,
      1072, 32, 1086, 1089, 1085, 1086, 1074, 1077, 58, 32>>

TEMPLATE_TAIL ==
    <<60, 47, 104, 49, 62, 10, 32, 32, 32, 32, 32, 32, 32, 32, 60, 112, 62,
      1050, 1086, 1085, 1090, 1077, 1085, 1090, 32, 1089, 1072, 1081, 1090,
      1072, 46, 46, 46, 60, 47, 112, 62, 10, 32, 32, 32, 32, 60, 47, 98, 111,
      100, 121, 62, 10, 32, 32, 32, 32, 60, 47, 104, 116, 109, 108, 62, 10,
      32, 32, 32, 32>>

\* The f-string of generate_html_chunks, rendered.
html_template(prompt, site_id) ==
    TEMPLATE_HEAD \o IntToStr(site_id) \o TEMPLATE_MID \o prompt \o TEMPLATE_TAIL

\* A generator object just created by generate_html_chunks(prompt, site_id):
\* no code of its body has run.  i is the loop variable of range(); pc is
\* where the body is suspended.
NewStream(prompt, site_id) ==
    [prompt |-> prompt, site_id |-> site_id, i |-> 0, pc |-> "start",
     delivered |-> <<>>]

---------------------------------------------------------------------------
(* The HTTP handlers *)

Serve(request, response) ==
    log' = Append(log, [request |-> request, response |-> response])

\* The body GET /sites/my returns: {"sites": MOCK_SITES_LIST}, serialized.
user_sites_response ==
    [status_code |-> 200,
     sites |-> [k \in 1..Len(MOCK_SITES_LIST) |-> Deref(MOCK_SITES_LIST[k])]]

\* GET /sites/my
mock_get_user_sites ==
    /\ Len(log) < MaxRequests
    /\ Serve([op |-> "list"], user_sites_response)
    /\ UNCHANGED <<registry, streams>>

\* POST /sites/create
mock_create_site ==
    /\ Len(log) < MaxRequests
    /\ \E title \in ReqTitles, prompt \in ReqPrompts, current_time \in Times :
          Serve([op |-> "create", title |-> title, prompt |-> prompt],
                [status_code |-> 200,
                 site |-> CreateSiteResponse(1, title, prompt,
                                             current_time, current_time)])
    /\ UNCHANGED <<registry, streams>>

\* The guard of mock_generate_site_html: `if id != 1`.
generate_site_not_found(site_id) == PyNe(id, PyInt(1))

\* POST /sites/{site_id}/generate
mock_generate_site_html ==
    /\ Len(log) < MaxRequests
    /\ \E site_id \in SiteIds, prompt \in ReqPrompts :
          IF generate_site_not_found(site_id)
          THEN /\ Serve([op |-> "generate", site_id |-> site_id,
                         prompt |-> prompt],
                        HTTPException(404, "Site not found"))
               /\ UNCHANGED streams
          ELSE /\ streams' = Append(streams, NewStream(prompt, site_id))
               /\ Serve([op |-> "generate", site_id |-> site_id,
                         prompt |-> prompt],
                        [status_code |-> 200, media_type |-> "text/html",
                         stream |-> Len(streams) + 1])
    /\ UNCHANGED registry

\* mock_get_site with the guard `if site_id > 1`.
get_site_not_found_above(site_id) == site_id > 1

\* The guard of mock_get_site: `if site_id != 1`.
get_site_not_found(site_id) == site_id # 1

\* What GET /sites/{site_id} answers.
get_site_response(site_id) ==
    IF get_site_not_found(site_id)
    THEN HTTPException(404, "Site not found")
    ELSE [status_code |-> 200, site |-> MOCK_SITE]

\* GET /sites/{site_id}
mock_get_site ==
    /\ Len(log) < MaxRequests
    /\ \E site_id \in SiteIds :
          Serve([op |-> "get", site_id |-> site_id],
                get_site_response(site_id))
    /\ UNCHANGED <<registry, streams>>

InitRegistry ==
    /\ MOCK_SITE = SiteResponse(1, MOCK_TITLE, MOCK_PROMPT, MOCK_TIME, MOCK_TIME)
    /\ MOCK_SITES_LIST = <<"MOCK_SITE">>

Init ==
    /\ InitRegistry
    /\ log = <<>>
    /\ streams = <<>>

Next ==
    \/ mock_get_user_sites
    \/ mock_create_site
    \/ mock_generate_site_html
    \/ mock_get_site

Spec == Init /\ [][Next]_vars

---------------------------------------------------------------------------
(* The stream producer, driven by its consumer *)

\* The f-string and range() of the running generator s.
TemplateOf(s) == html_template(streams[s].prompt, streams[s].site_id)

\* A loop variable shared by all generators (a module-level index).
loop_var_shared(s) == streams[1].i

\* The generator's own loop variable.
loop_var(s) == streams[s].i

\* range(0, stop + 1, chunk_size): one index too many when chunk_size
\* divides stop.
in_range_inclusive(i, stop) == i <= stop

\* range(0, stop, chunk_size) still holds the index i.
in_range(i, stop) == i < stop

\* One turn of `for i in range(...)` in generator s with the index at i: the
\* body yields html_template[i:i + chunk_size], or the loop is exhausted and
\* the generator returns.
loop_step(s, i) ==
    IF in_range(i, Len(TemplateOf(s)))
    THEN [streams[s] EXCEPT
            !.i = i,
            !.pc = "yield",
            !.delivered = Append(@, Slice(TemplateOf(s), i, i + chunk_size))]
    ELSE [streams[s] EXCEPT !.i = i, !.pc = "done"]

\* The consumer's first __anext__: the body runs to its first yield.
first_chunk(s) ==
    /\ streams[s].pc = "start"
    /\ streams' = [streams EXCEPT ![s] = loop_step(s, 0)]
    /\ UNCHANGED <<registry, log>>

\* The consumer asks for the next chunk: the body resumes after the yield
\* and suspends in `await asyncio.sleep(0.1)`.
resume_to_sleep(s) ==
    /\ streams[s].pc = "yield"
    /\ streams' = [streams EXCEPT ![s].pc = "sleep"]
    /\ UNCHANGED <<registry, log>>

\* after_sleep that also stamps the site record on every chunk.
after_sleep_marking(s) ==
    /\ streams[s].pc = "sleep"
    /\ streams' = [streams EXCEPT ![s] = loop_step(s, loop_var(s) + chunk_size)]
    /\ MOCK_SITE' = [MOCK_SITE EXCEPT !.updated_at = MOCK_TIME + 1]
    /\ UNCHANGED <<MOCK_SITES_LIST, log>>

\* The sleep is over: the loop takes its next index.
after_sleep(s) ==
    /\ streams[s].pc = "sleep"
    /\ streams' = [streams EXCEPT ![s] = loop_step(s, loop_var(s) + chunk_size)]
    /\ UNCHANGED <<registry, log>>

\* The consumer disconnects: the response task is cancelled at the point
\* where the generator is suspended, and no more of its body runs.
disconnect(s) ==
    /\ streams[s].pc \in {"start", "yield", "sleep"}
    /\ streams' = [streams EXCEPT ![s].pc = "cancelled"]
    /\ UNCHANGED <<registry, log>>

NextGen ==
    \/ \E s \in 1..Len(streams) : first_chunk(s)
    \/ \E s \in 1..Len(streams) : resume_to_sleep(s)
    \/ \E s \in 1..Len(streams) : after_sleep(s)
    \/ \E s \in 1..Len(streams) : disconnect(s)

\* Inputs of the producers.
GenSiteIds == {1, 10}

GenPrompts == {PromptOf(0, 97), PromptOf(1, 97), PromptOf(1, 65)}

ChunkSiteIds == {-1, 1, 10}

ChunkPrompts == {PromptOf(n, base) : n \in 0..MaxPromptLen, base \in {65, 97}}

\* NStreams producers running concurrently.
InitGen ==
    /\ InitRegistry
    /\ log = <<>>
    /\ streams \in [1..NStreams ->
                       {NewStream(p, sid) : p \in GenPrompts, sid \in GenSiteIds}]

SpecGen == InitGen /\ [][NextGen]_vars

\* One producer, over every prompt length up to MaxPromptLen.
InitChunks ==
    /\ InitRegistry
    /\ log = <<>>
    /\ streams \in {<<NewStream(p, sid)>> : p \in ChunkPrompts, sid \in ChunkSiteIds}

SpecChunks == InitChunks /\ [][NextGen]_vars

---------------------------------------------------------------------------
(* Vocabulary of the properties *)

LogIdx == 1..Len(log)

StreamIdx == 1..Len(streams)

\* The ids that resolve to a site of the registry.
KnownIds == {Deref(MOCK_SITES_LIST[k]).id : k \in 1..Len(MOCK_SITES_LIST)}

IsNotFound(response) ==
    /\ response.status_code = 404
    /\ response.detail = "Site not found"
    /\ "site" \notin DOMAIN response
    /\ "stream" \notin DOMAIN response

IsStream(response) ==
    /\ response.status_code = 200
    /\ "stream" \in DOMAIN response
    /\ response.media_type = "text/html"

Statuses == {"created", "generating", "ready"}

Rank(status) ==
    CASE status = "created" -> 0
      [] status = "generating" -> 1
      [] status = "ready" -> 2

HasStatus(record) == "status" \in DOMAIN record /\ record.status \in Statuses

\* The site records the responses served so far have shown, oldest first.
RECURSIVE Observed(_)
Observed(k) ==
    IF k = 0 THEN <<>>
    ELSE LET r == log[k].response
         IN  Observed(k - 1) \o
             (IF "sites" \in DOMAIN r THEN r.sites
              ELSE IF "site" \in DOMAIN r THEN <<r.site>>
              ELSE <<>>)

RECURSIVE Concat(_)
Concat(chunks) ==
    IF chunks = <<>> THEN <<>> ELSE Head(chunks) \o Concat(Tail(chunks))

IsPrefix(s, t) == Len(s) <= Len(t) /\ s = SubSeq(t, 1, Len(s))

CeilDiv(a, b) == (a + b - 1) \div b

\* The chunks of document T when nothing else runs: the k-th is the k-th
\* run of chunk_size characters, the last one what is left.
ChunksAlone(T) ==
    [k \in 1..CeilDiv(Len(T), chunk_size) |->
        SubSeq(T, chunk_size * (k - 1) + 1, Min(chunk_size * k, Len(T)))]

InFlight(s) == streams[s].pc \in {"yield", "sleep"}

InitialSite == SiteResponse(1, MOCK_TITLE, MOCK_PROMPT, MOCK_TIME, MOCK_TIME)

---------------------------------------------------------------------------
(* C1: a generate request for a site id of the registry is answered with   *)
(* the text/html stream of generate_html_chunks, and NotFound is answered  *)
(* only when the id does not resolve.                                      *)
C1_KnownSiteStreams ==
    \A k \in LogIdx :
        log[k].request.op = "generate" =>
            IF log[k].request.site_id \in KnownIds
            THEN IsStream(log[k].response)
            ELSE IsNotFound(log[k].response)

C3_ConcatIsTemplate ==
    /\ \A s \in StreamIdx :
          /\ IsPrefix(Concat(streams[s].delivered), TemplateOf(s))
          /\ streams[s].pc = "done" =>
                Concat(streams[s].delivered) = TemplateOf(s)
    /\ \A s, t \in StreamIdx :
          (/\ streams[s].pc = "done"
           /\ streams[t].pc = "done"
           /\ streams[s].prompt = streams[t].prompt
           /\ streams[s].site_id = streams[t].site_id)
             => streams[s].delivered = streams[t].delivered

C3_Witness ==
    \E s, t \in StreamIdx :
        /\ s # t
        /\ streams[s].pc = "done"
        /\ streams[t].pc = "done"
        /\ streams[s].prompt = streams[t].prompt
        /\ streams[s].prompt # <<>>
        /\ streams[s].site_id = streams[t].site_id
        /\ Len(streams[s].delivered) = 3

(* C4: every chunk but possibly the last has exactly chunk_size            *)
(* characters, the last is non-empty and has at most chunk_size, and a     *)
(* producer that returned yielded exactly ceil(L / chunk_size) chunks of a *)
(* document of length L.                                                   *)
C4_UniformChunks ==
    \A s \in StreamIdx :
        LET d == streams[s].delivered
        IN  /\ \A k \in 1..Len(d) :
                  /\ Len(d[k]) >= 1
                  /\ Len(d[k]) <= chunk_size
                  /\ k < Len(d) => Len(d[k]) = chunk_size
            /\ streams[s].pc # "done" =>
                  \A k \in 1..Len(d) :
                      Len(d[k]) < chunk_size =>
                          chunk_size * (k - 1) + Len(d[k]) = Len(TemplateOf(s))
            /\ streams[s].pc = "done" =>
                  Len(d) = CeilDiv(Len(TemplateOf(s)), chunk_size)

\* A returned producer whose document is a whole number of chunks, and one
\* whose last chunk is short.
C4_Witness ==
    \E s \in StreamIdx :
        /\ streams[s].pc = "done"
        /\ Len(TemplateOf(s)) = 3 * chunk_size
        /\ Len(streams[s].delivered) = 3
        /\ Len(streams[s].delivered[3]) = chunk_size

(* C5: every site record carries a status in {created, generating, ready}, *)
(* and the statuses shown for one id over the responses served never move  *)
(* backward.                                                               *)
C5_StatusForward ==
    LET seen == Observed(Len(log)) \o
                [k \in 1..Len(MOCK_SITES_LIST) |-> Deref(MOCK_SITES_LIST[k])]
    IN  /\ \A k \in 1..Len(seen) : HasStatus(seen[k])
        /\ \A j, k \in 1..Len(seen) :
              (j < k /\ seen[j].id = seen[k].id)
                 => Rank(seen[j].status) <= Rank(seen[k].status)

(* C6: once a producer for an existing site has returned, after its last   *)
(* chunk, GET /sites/{id} reports the site with status ready and an        *)
(* updated_at not earlier than before the generation.                      *)
C6_ReadyAfterLastChunk ==
    \A s \in StreamIdx :
        (streams[s].pc = "done" /\ streams[s].site_id \in KnownIds) =>
            LET r == get_site_response(streams[s].site_id)
            IN  /\ r.status_code = 200
                /\ HasStatus(r.site)
                /\ r.site.status = "ready"
                /\ r.site.updated_at >= InitialSite.updated_at

\* The create requests among the first k entries of the log, oldest first.
CreatesBefore(k) ==
    SelectSeq(SubSeq(log, 1, k - 1), LAMBDA e : e.request.op = "create")

(* C7: the list operation returns exactly the records created so far, in   *)
(* creation order: a list served after two creates holds exactly two       *)
(* records, each with the prompt and title of its request.                 *)
C7_ListIsCreatedSoFar ==
    \A k \in LogIdx :
        (log[k].request.op = "list" /\ Len(CreatesBefore(k)) = 2) =>
            LET made == CreatesBefore(k)
                sites == log[k].response.sites
            IN  /\ Len(sites) = 2
                /\ \A n \in 1..2 :
                      /\ sites[n].prompt = made[n].request.prompt
                      /\ sites[n].title = made[n].request.title

(* C8: every create succeeds, and of any two creates the later one returns *)
(* the greater id.                                                         *)
C8_IdsIncrease ==
    \A j, k \in LogIdx :
        (/\ j < k
         /\ log[j].request.op = "create"
         /\ log[k].request.op = "create")
           => /\ log[j].response.status_code = 200
              /\ log[k].response.status_code = 200
              /\ log[j].response.site.id < log[k].response.site.id

\* As long as no producer has returned, GET and list answer as before any
\* producer ran.
C9_NothingVisible ==
    (\A s \in StreamIdx : streams[s].pc # "done") =>
        /\ user_sites_response = [status_code |-> 200, sites |-> <<InitialSite>>]
        /\ get_site_response(1) = [status_code |-> 200, site |-> InitialSite]
        /\ \A n \in (GenSiteIds \cup SiteIds) \ {1} :
              IsNotFound(get_site_response(n))

\* A disconnected producer runs no further.
C9_Stopped ==
    \A s \in StreamIdx :
        streams[s].pc = "cancelled" =>
            (s \in DOMAIN streams' /\ streams'[s] = streams[s])

(* C9: while a stream has not delivered its last chunk, and when its       *)
(* consumer has disconnected, no mutation of the registry is visible to    *)
(* GET or list, and a disconnected producer yields nothing more.           *)
C9_NoMutationBeforeCompletion == []C9_NothingVisible /\ [][C9_Stopped]_vars

C9_Witness ==
    \E s, t \in StreamIdx :
        /\ streams[s].pc = "cancelled"
        /\ Len(streams[s].delivered) >= 1
        /\ Len(Concat(streams[s].delivered)) < Len(TemplateOf(s))
        /\ InFlight(t)
        /\ Len(streams[t].delivered) >= 1

(* C10: under every interleaving of the producers at their suspension      *)
(* points, each producer has yielded exactly the first chunks it yields    *)
(* when run alone, and all of them when it has returned.                   *)
C10_SameAsAlone ==
    \A s \in StreamIdx :
        LET alone == ChunksAlone(TemplateOf(s))
            d == streams[s].delivered
        IN  /\ Len(d) <= Len(alone)
            /\ d = SubSeq(alone, 1, Len(d))
            /\ streams[s].pc = "done" => d = alone
            /\ InFlight(s) => streams[s].i = chunk_size * (Len(d) - 1)

\* Two producers of different documents, both suspended in mid-stream.
C10_Witness ==
    \E s, t \in StreamIdx :
        /\ s # t
        /\ TemplateOf(s) # TemplateOf(t)
        /\ streams[s].pc = "sleep"
        /\ streams[t].pc = "yield"
        /\ Len(streams[s].delivered) = 2
        /\ Len(streams[t].delivered) = 1

===========================================================================
